---- MODULE Spec2Model ----
(***************************************************************************)
(* State-machine model of the ECS World (src/src/world.ts) together with   *)
(* the parts of Entity (entity.ts) and System (system.ts) it drives.       *)
(*                                                                         *)
(* Every public operation of World / Entity is one action.  The body of an *)
(* operation is written as a function from a record of the mutable program *)
(* state to the record after the call, so that nested calls (update ->     *)
(* removeEntity, entity.add -> subscription -> _indexEntity, ...) are      *)
(* composed exactly as the code composes them.                             *)
(*                                                                         *)
(* JS numbers that may be NaN (timestamps, deltas) are encoded as <<v>>    *)
(* for the number v and << >> for NaN.  Times are in milliseconds; a delta *)
(* handed to a hook is recorded as its numerator over 1000.                *)
(*                                                                         *)
(* Every entity and every system declares every optional hook, so each     *)
(* "if (system.enter)" / "entity.onRemoved?.()" of the code is a call, and *)
(* the hooks themselves do not call back into the world.  `calls` lists    *)
(* the hooks invoked by the last operation, in order; `fault` tells that   *)
(* the last operation ended in an uncaught TypeError.                      *)
(***************************************************************************)
EXTENDS Integers, Sequences, FiniteSets, TLC

\* ----------------------------------------------------------------- bounds
\* the number of entities the application creates
NumEntities == 2
\* the latest instant of real time, in seconds after the world is created
MaxClock == 1

\* -------------------------------------------------------------- constants
Wildcard == -1
ECSStateAny == "Any"

Entities == 1..NumEntities
Systems == {1, 2}
Components == {1, 2, 3}
States == {"", "play"}

\* the durations, in ms, by which real time advances between two operations
ClockSteps == {1000}

\* component.type of the component instances the application creates:
\* two instances of type 1, one of type 2
TypeOf(c) == IF c = 3 THEN 2 ELSE 1

\* the component instances the application attaches to an entity: all of them
\* to entity 1, one to entity 2, none to any further entity
Attachable(e) == IF e = 1 THEN Components ELSE IF e = 2 THEN {1} ELSE {}

\* System constructor arguments of the systems the application creates
BasicSystems ==
  [s \in Systems |->
     CASE s = 1 -> [componentTypes |-> <<1>>, states |-> <<ECSStateAny>>, frequency |-> 0]
       [] OTHER -> [componentTypes |-> <<1, 2>>, states |-> <<"play">>, frequency |-> 0]]

\* the event names the systems listen to and trigger
Events == {"hit"}

\* the listener functions a system registers
ListenerFns == {1, 2}

\* the values the application gives to World.timeScale
TimeScales == {0, 1, 2}

\* the durations, in ms, between two operations of an application that calls
\* update() several times a second
FineSteps == {250}

\* System constructor arguments of an application with throttled systems
FreqSystems ==
  [s \in Systems |->
     CASE s = 1 -> [componentTypes |-> <<Wildcard>>, states |-> <<ECSStateAny>>, frequency |-> 1]
       [] OTHER -> [componentTypes |-> <<1>>, states |-> <<ECSStateAny>>, frequency |-> 2]]

\* the componentTypes lists the application passes to World.query
QueryTypes == {<<Wildcard>>, <<1>>, <<1, 2>>}

\* System constructor arguments of an application whose systems listen to
\* events: one of them combines the wildcard with another type
QuerySystems ==
  [s \in Systems |->
     CASE s = 1 -> [componentTypes |-> <<Wildcard, 2>>, states |-> <<ECSStateAny>>, frequency |-> 0]
       [] OTHER -> [componentTypes |-> <<1, 2>>, states |-> <<ECSStateAny>>, frequency |-> 0]]

\* what the body of a tick hook does to the world: one call of the World or
\* Entity interface
Mutations ==
  [kind : {"addEntity", "removeEntity"}, e : Entities, s : {0}, c : {0}]
  \cup [kind : {"addSystem", "removeSystem"}, e : {0}, s : Systems, c : {0}]
  \cup [kind : {"entity.add", "entity.remove"}, e : {1}, s : {0}, c : {1}]
  \cup [kind : {"setState"}, e : {0}, s : {0}, c : {"play"}]

\* the hook of the first system whose body mutates the world, and the mutation
\* it makes the first time it is called in a tick
HookPlans == [hook : {"update", "beforeUpdateAll", "afterUpdateAll"}, s : {1}, m : Mutations]

\* the component instance the enter hook of a system adds to the entering
\* entity when the entity has none of that type (0: the hook adds nothing):
\* the first system is a factory of the type the second one requires
EnterAdds == [s \in Systems |-> IF s = 1 THEN 3 ELSE 0]

\* System constructor arguments of an application with a system that declares
\* no component type
EmptyTypeSystems ==
  [s \in Systems |->
     CASE s = 1 -> [componentTypes |-> << >>, states |-> <<ECSStateAny>>, frequency |-> 0]
       [] OTHER -> [componentTypes |-> <<1>>, states |-> <<ECSStateAny>>, frequency |-> 0]]

VARIABLES
  _entities,                    \* World._entities
  _systems,                     \* World._systems
  _entitySystems,               \* World._entitySystems
  _entitySystemLastUpdate,      \* World._entitySystemLastUpdate
  _entitySystemLastUpdateGame,  \* World._entitySystemLastUpdateGame
  _entitySubscription,          \* World._entitySubscription (its keys)
  _queryCache,                  \* World._queryCache
  _state,                       \* World._state
  timeScale,                    \* World.timeScale
  _lastUpdate,                  \* World._lastUpdate
  _gameTime,                    \* World._gameTime
  components,                   \* Entity.components, per entity
  active,                       \* Entity.active, per entity
  _subscriptions,               \* Entity._subscriptions, per entity (world closures)
  systemWorld,                  \* System.world / System.trigger, per system
  system,                       \* System.componentTypes / states / frequency, per system
  clock,                        \* the value now() returns
  calls,                        \* hook invocations made by the last operation
  fault,                        \* the last operation raised a TypeError
  op,                           \* the last operation and its arguments
  entered,                      \* history: last of enter/exit per (entity, system)
  listeners,                    \* System.listeners, per system
  lastTick,                     \* history: the previous update(), per throttled system
  twin,                         \* the same operations applied to a world with timeScale 2
  returned,                     \* what the last operation returned or yielded
  injected,                     \* history: System.world at each hook call of the last operation
  dropped                       \* history: the cache entries the last operation dropped

vars == <<_entities, _systems, _entitySystems, _entitySystemLastUpdate,
          _entitySystemLastUpdateGame, _entitySubscription, _queryCache, _state,
          timeScale, _lastUpdate, _gameTime, components, active, _subscriptions,
          systemWorld, system, clock, calls, fault, op, entered, listeners,
          lastTick, twin, returned, injected, dropped>>

\* ---------------------------------------------------------- JS primitives
NaN == << >>
Num(v) == <<v>>
IsNaN(x) == x = NaN

\* a - b on JS numbers, either of which may be NaN
Minus(a, b) == IF IsNaN(a) \/ IsNaN(b) THEN NaN ELSE Num(a[1] - b[1])

\* a < b on JS numbers: false when either is NaN
LessThan(a, b) == IF IsNaN(a) \/ IsNaN(b) THEN FALSE ELSE a[1] < b[1]

\* a % b on JS numbers, b > 0 (the sign follows the dividend)
Remainder(a, b) ==
  IF IsNaN(a) \/ IsNaN(b) THEN NaN
  ELSE IF a[1] >= 0 THEN Num(a[1] % b[1]) ELSE Num(0 - ((0 - a[1]) % b[1]))

\* obj[key] of a table of numbers: undefined behaves as NaN in arithmetic
Lookup(table, key) == IF key \in DOMAIN table THEN table[key] ELSE NaN

Includes(seq, x) == \E i \in 1..Len(seq) : seq[i] = x

\* Array.prototype.indexOf, 0-based, -1 when absent
IndexOf(seq, x) ==
  IF Includes(seq, x)
  THEN (CHOOSE i \in 1..Len(seq) : seq[i] = x /\ \A j \in 1..(i - 1) : seq[j] # x) - 1
  ELSE -1

\* Array.prototype.splice(start, 1): a negative start counts from the end
Splice(seq, start) ==
  LET from == IF start < 0 THEN (IF Len(seq) + start < 0 THEN 0 ELSE Len(seq) + start)
              ELSE (IF start > Len(seq) THEN Len(seq) ELSE start)
  IN SubSeq(seq, 1, from) \o SubSeq(seq, from + 2, Len(seq))

\* delete obj[key]
Delete(obj, key) == [k \in DOMAIN obj \ {key} |-> obj[k]]

\* obj[key] = value
Put(obj, key, value) == [k \in DOMAIN obj \cup {key} |-> IF k = key THEN value ELSE obj[k]]

\* ------------------------------------------------------------- hook calls
\* One invocation of a hook: s = 0 for an entity hook, e = 0 for a hook
\* without an entity argument; arg holds the remaining arguments.
Call(hook, s, e, arg) == [hook |-> hook, s |-> s, e |-> e, arg |-> arg]

\* the hook is called; for a system hook, what system.world is at that moment
Fire(w, c) ==
  [w EXCEPT !.calls = Append(@, c),
            !.at = Append(@, IF c.s = 0 THEN "" ELSE w.systemWorld[c.s])]

\* _inject that leaves the references of the system as they are
_injectNothing(w, sys) == w

\* World._inject
_inject(w, sys) == [w EXCEPT !.systemWorld[sys] = "this"]

\* [-1].concat(Object.keys(entity.components).map(...)), as a set
entityComponentIDs(w, entity) == {Wildcard} \cup DOMAIN w.components[entity]

\* --------------------------------------------------------------- indexing
ExitPair(w, entity, sys) ==
  [w EXCEPT !.entitySystems[entity] = Splice(@, IndexOf(@, sys)),
            !.lastUpdate[entity] = Delete(@, sys),
            !.lastUpdateGame[entity] = Delete(@, sys)]

\* _indexEntitySystem without the "index >= 0" guard of its exit branch: exit
\* is fired on every missing type, indexed or not
_indexEntitySystemExitUnguarded(w, entity, sys) ==
  LET index == IndexOf(w.entitySystems[entity], sys)
      types == w.system[sys].componentTypes
      missing == \E a \in 1..Len(types) : types[a] \notin entityComponentIDs(w, entity)
  IN IF ~Includes(w.systems, sys)
     THEN (IF index >= 0 THEN ExitPair(w, entity, sys) ELSE w)
     ELSE IF missing
     THEN ExitPair(Fire(_inject(w, sys), Call("exit", sys, entity, << >>)), entity, sys)
     ELSE IF index < 0
     THEN Fire(_inject([w EXCEPT !.entitySystems[entity] = Append(@, sys),
                                 !.lastUpdate[entity] = Put(@, sys, Num(w.clock)),
                                 !.lastUpdateGame[entity] = Put(@, sys, Num(w.gameTime))],
                       sys),
               Call("enter", sys, entity, << >>))
     ELSE w

\* _indexEntitySystem without the "index < 0" guard of its enter branch: the
\* system is pushed whenever the entity has every type
_indexEntitySystemPushAlways(w, entity, sys) ==
  LET index == IndexOf(w.entitySystems[entity], sys)
      types == w.system[sys].componentTypes
      missing == \E a \in 1..Len(types) : types[a] \notin entityComponentIDs(w, entity)
  IN IF ~Includes(w.systems, sys)
     THEN (IF index >= 0 THEN ExitPair(w, entity, sys) ELSE w)
     ELSE IF missing
     THEN (IF index >= 0
           THEN ExitPair(Fire(_inject(w, sys), Call("exit", sys, entity, << >>)),
                         entity, sys)
           ELSE w)
     ELSE Fire(_inject([w EXCEPT !.entitySystems[entity] = Append(@, sys),
                                 !.lastUpdate[entity] = Put(@, sys, Num(w.clock)),
                                 !.lastUpdateGame[entity] = Put(@, sys, Num(w.gameTime))],
                       sys),
               Call("enter", sys, entity, << >>))

\* World._indexEntitySystem
_indexEntitySystem(w, entity, sys) ==
  LET index == IndexOf(w.entitySystems[entity], sys)
      types == w.system[sys].componentTypes
      missing == \E a \in 1..Len(types) : types[a] \notin entityComponentIDs(w, entity)
  IN IF ~Includes(w.systems, sys)
     THEN (IF index >= 0 THEN ExitPair(w, entity, sys) ELSE w)
     ELSE IF missing
     THEN (IF index >= 0
           THEN ExitPair(Fire(_inject(w, sys), Call("exit", sys, entity, << >>)),
                         entity, sys)
           ELSE w)
     ELSE IF index < 0
     THEN Fire(_inject([w EXCEPT !.entitySystems[entity] = Append(@, sys),
                                 !.lastUpdate[entity] = Put(@, sys, Num(w.clock)),
                                 !.lastUpdateGame[entity] = Put(@, sys, Num(w.gameTime))],
                       sys),
               Call("enter", sys, entity, << >>))
     ELSE w

RECURSIVE IndexAllSystems(_, _, _)
\* this._systems.forEach((sys) => this._indexEntitySystem(entity, sys))
IndexAllSystems(w, entity, k) ==
  IF k > Len(w.systems) THEN w
  ELSE IndexAllSystems(_indexEntitySystem(w, entity, w.systems[k]), entity, k + 1)

\* World._indexEntity(entity, sys), sys given
IndexEntityFor(w, entity, sys) ==
  LET w1 == IF entity \in DOMAIN w.entitySystems THEN w
            ELSE [w EXCEPT !.entitySystems = Put(@, entity, << >>)]
  IN _indexEntitySystem(w1, entity, sys)

\* World._indexEntity(entity), no sys given
_indexEntity(w, entity) ==
  LET w1 == IF entity \in DOMAIN w.entitySystems THEN w
            ELSE [w EXCEPT !.entitySystems = Put(@, entity, << >>)]
  IN IndexAllSystems(w1, entity, 1)

\* ------------------------------------------------------ state as a record
W ==
  [entities |-> _entities, systems |-> _systems, entitySystems |-> _entitySystems,
   lastUpdate |-> _entitySystemLastUpdate, lastUpdateGame |-> _entitySystemLastUpdateGame,
   entitySubscription |-> _entitySubscription, queryCache |-> _queryCache,
   state |-> _state, timeScale |-> timeScale, lastUpdateTime |-> _lastUpdate,
   gameTime |-> _gameTime, components |-> components, active |-> active,
   subscriptions |-> _subscriptions, systemWorld |-> systemWorld, system |-> system,
   clock |-> clock, listeners |-> listeners,
   calls |-> << >>, fault |-> FALSE, at |-> << >>, ret |-> << >>]

RECURSIVE Replay(_, _, _)
\* the last of enter / exit fired so far for each (entity, sys)
Replay(h, cs, k) ==
  IF k > Len(cs) THEN h
  ELSE Replay(IF cs[k].hook \in {"enter", "exit"}
              THEN [h EXCEPT ![cs[k].e][cs[k].s] = (cs[k].hook = "enter")]
              ELSE h, cs, k + 1)

\* what the previous update() did for each registered system with a frequency:
\* when it ran, the entities then in the world, the entities it updated
TickSummary(w) ==
  [s \in {x \in Systems : Includes(w.systems, x) /\ w.system[x].frequency > 0} |->
     [time |-> w.clock,
      world |-> {w.entities[k] : k \in 1..Len(w.entities)},
      updated |-> {e \in Entities :
                     \E i \in 1..Len(w.calls) :
                       w.calls[i].hook = "update" /\ w.calls[i].s = s /\ w.calls[i].e = e}]]

\* the program state after an operation, and the history of its hook calls
Store(w, o) ==
  /\ _entities' = w.entities
  /\ _systems' = w.systems
  /\ _entitySystems' = w.entitySystems
  /\ _entitySystemLastUpdate' = w.lastUpdate
  /\ _entitySystemLastUpdateGame' = w.lastUpdateGame
  /\ _entitySubscription' = w.entitySubscription
  /\ _queryCache' = w.queryCache
  /\ _state' = w.state
  /\ timeScale' = w.timeScale
  /\ _lastUpdate' = w.lastUpdateTime
  /\ _gameTime' = w.gameTime
  /\ components' = w.components
  /\ active' = w.active
  /\ _subscriptions' = w.subscriptions
  /\ systemWorld' = w.systemWorld
  /\ system' = w.system
  /\ clock' = w.clock
  /\ calls' = w.calls
  /\ fault' = w.fault
  /\ op' = o
  /\ entered' = Replay(entered, w.calls, 1)
  /\ listeners' = w.listeners
  /\ lastTick' = IF o.name = "update" THEN TickSummary(w) ELSE lastTick
  /\ returned' = w.ret
  /\ injected' = [before |-> {s \in Systems : systemWorld[s] = "other"}, at |-> w.at]
  /\ dropped' = DOMAIN _queryCache \ DOMAIN w.queryCache

Commit(w, o) == Store(w, o) /\ twin' = twin

InitState(table) ==
  /\ system = table
  /\ _entities = << >>
  /\ _systems = << >>
  /\ _entitySystems = << >>
  /\ _entitySystemLastUpdate = << >>
  /\ _entitySystemLastUpdateGame = << >>
  /\ _entitySubscription = {}
  /\ _queryCache = << >>
  /\ _state = ""
  /\ timeScale = 1
  /\ _lastUpdate = 0
  /\ _gameTime = 0
  /\ components = [e \in Entities |-> << >>]
  /\ active = [e \in Entities |-> TRUE]
  /\ _subscriptions = [e \in Entities |-> 0]
  /\ systemWorld = [s \in Systems |-> "undefined"]
  /\ clock = 0
  /\ calls = << >>
  /\ fault = FALSE
  /\ op = [name |-> "new", e |-> 0, s |-> 0, c |-> 0]
  /\ entered = [e \in Entities |-> [s \in Systems |-> FALSE]]
  /\ listeners = [s \in Systems |-> << >>]
  /\ lastTick = << >>
  /\ returned = << >>
  /\ injected = [before |-> {}, at |-> << >>]
  /\ dropped = {}

InitWith(table) == InitState(table) /\ twin = << >>

Init == InitWith(BasicSystems)

Op(name, e, s, c) == [name |-> name, e |-> e, s |-> s, c |-> c]

\* ------------------------------------------------------------------ World
RECURSIVE NotifyChange(_, _, _, _, _)
\* World._onEntityUpdate: change() on the indexed systems that expect the component
NotifyChange(w, entity, added, removed, k) ==
  LET list == w.entitySystems[entity]
      sys == list[k]
      types == w.system[sys].componentTypes
      all == Includes(types, Wildcard)
      needsNotify == \/ all
                     \/ (added # 0 /\ Includes(types, TypeOf(added)))
                     \/ (removed # 0 /\ Includes(types, TypeOf(removed)))
      a == IF all \/ (added # 0 /\ Includes(types, TypeOf(added))) THEN added ELSE 0
      r == IF all \/ (removed # 0 /\ Includes(types, TypeOf(removed))) THEN removed ELSE 0
  IN IF k > Len(list) THEN w
     ELSE NotifyChange(IF needsNotify
                       THEN Fire(_inject(w, sys), Call("change", sys, entity, <<a, r>>))
                       ELSE w,
                       entity, added, removed, k + 1)

\* World._onEntityUpdate
_onEntityUpdate(w, entity, added, removed) ==
  IF entity \notin DOMAIN w.entitySystems THEN w
  ELSE NotifyChange(w, entity, added, removed, 1)

\* the closure returned by Entity.subscribe
Unsubscribe(w, entity) ==
  [w EXCEPT !.subscriptions[entity] = IF @ > 0 THEN @ - 1 ELSE @]

\* a world that never cancels a subscription
KeepSubscription(w, entity) == w

\* "Remove entity subscription" of addEntity / removeEntity
DropSubscription(w, entity) ==
  IF entity \in w.entitySubscription
  THEN [Unsubscribe(w, entity) EXCEPT !.entitySubscription = @ \ {entity}]
  ELSE w

\* World.addEntity
addEntity(w, entity) ==
  IF Includes(w.entities, entity) THEN w
  ELSE LET w1 == [w EXCEPT !.entities = Append(@, entity),
                           !.lastUpdate = Put(@, entity, << >>),
                           !.lastUpdateGame = Put(@, entity, << >>)]
           w2 == DropSubscription(w1, entity)
           w3 == [w2 EXCEPT !.entitySubscription = @ \cup {entity},
                            !.subscriptions[entity] = @ + 1]
           w4 == Fire(w3, Call("onAdded", 0, entity, << >>))
       IN _indexEntity(w4, entity)

\* Entity.getComponents spreads this.components[type]: a TypeError when undefined
GetComponentsThrows(w, entity, type) == type \notin DOMAIN w.components[entity]

RECURSIVE ExitAll(_, _, _, _)
\* this._entitySystems[entity.id]?.forEach(sys.exit(entity))
ExitAll(w, entity, list, k) ==
  IF k > Len(list) THEN w
  ELSE ExitAll(Fire(_inject(w, list[k]), Call("exit", list[k], entity, << >>)),
               entity, list, k + 1)

\* removeEntity without the clean-up of _queryCache
removeEntityKeepsCache(w, entity) ==
  LET index == IndexOf(w.entities, entity)
      w2 == IF index >= 0 THEN [w EXCEPT !.entities = Splice(@, index)] ELSE w
      w3 == DropSubscription(w2, entity)
      w4 == IF entity \in DOMAIN w3.entitySystems
            THEN ExitAll(w3, entity, w3.entitySystems[entity], 1)
            ELSE w3
      w5 == Fire(w4, Call("onRemoved", 0, entity, << >>))
  IN [w5 EXCEPT !.entitySystems = Delete(@, entity),
                !.lastUpdate = Delete(@, entity),
                !.lastUpdateGame = Delete(@, entity)]

\* World.removeEntity, the argument an Entity object
removeEntity(w, entity) ==
  IF \E type \in DOMAIN w.queryCache : GetComponentsThrows(w, entity, type)
  THEN [w EXCEPT !.fault = TRUE]
  ELSE LET removeCached == {type \in DOMAIN w.queryCache :
                              Len(w.components[entity][type]) > 0}
           w1 == [w EXCEPT !.queryCache = [t \in DOMAIN @ \ removeCached |-> @[t]]]
           index == IndexOf(w1.entities, entity)
           w2 == IF index >= 0 THEN [w1 EXCEPT !.entities = Splice(@, index)] ELSE w1
           w3 == DropSubscription(w2, entity)
           w4 == IF entity \in DOMAIN w3.entitySystems
                 THEN ExitAll(w3, entity, w3.entitySystems[entity], 1)
                 ELSE w3
           w5 == Fire(w4, Call("onRemoved", 0, entity, << >>))
       IN [w5 EXCEPT !.entitySystems = Delete(@, entity),
                     !.lastUpdate = Delete(@, entity),
                     !.lastUpdateGame = Delete(@, entity)]

\* World.removeEntity, the argument an id: getEntity(id) resolves it
removeEntityById(w, id) ==
  IF Includes(w.entities, id) THEN removeEntity(w, id) ELSE w

RECURSIVE IndexEntities(_, _, _, _)
\* this._entities.forEach((entity) => this._indexEntity(entity, sys))
IndexEntities(w, list, sys, k) ==
  IF k > Len(list) THEN w
  ELSE IndexEntities(IndexEntityFor(w, list[k], sys), list, sys, k + 1)

RECURSIVE HookEntities(_, _, _, _, _)
\* the "Call sys enter" / "Call sys exit" loops of addSystem / removeSystem
HookEntities(w, list, sys, hook, k) ==
  IF k > Len(list) THEN w
  ELSE LET entity == list[k]
           hit == /\ w.active[entity]
                  /\ entity \in DOMAIN w.entitySystems
                  /\ Includes(w.entitySystems[entity], sys)
       IN HookEntities(IF hit
                       THEN Fire(_inject(w, sys), Call(hook, sys, entity, << >>))
                       ELSE w,
                       list, sys, hook, k + 1)

\* addSystem without its test for a system that is already registered
addSystemUnguarded(w, sys) ==
  LET w1 == [w EXCEPT !.systems = Append(@, sys)]
      w2 == IndexEntities(w1, w1.entities, sys, 1)
      w3 == HookEntities(w2, w2.entities, sys, "enter", 1)
  IN Fire(_inject(w3, sys), Call("onAdded", sys, 0, << >>))

\* World.addSystem
addSystem(w, sys) ==
  IF Includes(w.systems, sys) THEN w
  ELSE LET w1 == [w EXCEPT !.systems = Append(@, sys)]
           w2 == IndexEntities(w1, w1.entities, sys, 1)
           w3 == HookEntities(w2, w2.entities, sys, "enter", 1)
       IN Fire(_inject(w3, sys), Call("onAdded", sys, 0, << >>))

\* World.removeSystem, the argument a System object
removeSystem(w, sys) ==
  LET w1 == HookEntities(w, w.entities, sys, "exit", 1)
      w2 == [w1 EXCEPT !.systems = Splice(@, IndexOf(@, sys))]
      w3 == IF w2.systemWorld[sys] = "this"
            THEN [Fire(w2, Call("onRemoved", sys, 0, << >>))
                    EXCEPT !.systemWorld[sys] = "undefined", !.listeners[sys] = << >>]
            ELSE w2
  IN IndexEntities(w3, w3.entities, sys, 1)

\* World.removeSystem, the argument an id: getSystem(id) resolves it
removeSystemById(w, id) ==
  IF Includes(w.systems, id) THEN removeSystem(w, id) ELSE w

\* ----------------------------------------------------------------- Entity
RECURSIVE NotifySubscribersIndexFirst(_, _, _, _, _)
\* subscribers that re-index the entity before they report the change
NotifySubscribersIndexFirst(w, entity, added, removed, n) ==
  IF n = 0 THEN w
  ELSE NotifySubscribersIndexFirst(_onEntityUpdate(_indexEntity(w, entity), entity, added, removed),
                                   entity, added, removed, n - 1)

RECURSIVE NotifySubscribers(_, _, _, _, _)
\* this._subscriptions.forEach(...): each world closure runs _onEntityUpdate, _indexEntity
NotifySubscribers(w, entity, added, removed, n) ==
  IF n = 0 THEN w
  ELSE NotifySubscribers(_indexEntity(_onEntityUpdate(w, entity, added, removed), entity),
                         entity, added, removed, n - 1)

\* Entity.add
EntityAddComponent(w, entity, component) ==
  LET type == TypeOf(component)
      list == IF type \in DOMAIN w.components[entity] THEN w.components[entity][type] ELSE << >>
  IN IF Includes(list, component) THEN w
     ELSE NotifySubscribers([w EXCEPT !.components[entity] = Put(@, type, Append(list, component))],
                            entity, component, 0, w.subscriptions[entity])

\* Entity.remove
EntityRemoveComponent(w, entity, component) ==
  LET type == TypeOf(component)
      list == w.components[entity][type]
      index == IndexOf(list, component)
      rest == Splice(list, index)
  IN IF type \notin DOMAIN w.components[entity] THEN w
     ELSE IF index < 0 THEN w
     ELSE NotifySubscribers([w EXCEPT !.components[entity] =
                                        IF Len(rest) < 1 THEN Delete(@, type)
                                        ELSE Put(@, type, rest)],
                            entity, 0, component, w.subscriptions[entity])

\* ------------------------------------- indexing with an enter hook that adds
RECURSIVE EntityAddComponentHooked(_, _, _)
RECURSIVE NotifySubscribersHooked(_, _, _, _, _)
RECURSIVE _indexEntityHooked(_, _)
RECURSIVE IndexAllSystemsHooked(_, _, _)
RECURSIVE _indexEntitySystemHooked(_, _, _)

\* system.enter(entity) with the body of EnterAdds: the hook looks for a component
\* of the type on the entity and adds one when there is none
EnterHooked(w, entity, sys) ==
  LET w1 == Fire(_inject(w, sys), Call("enter", sys, entity, << >>))
      c == EnterAdds[sys]
  IN IF c # 0 /\ TypeOf(c) \notin DOMAIN w1.components[entity]
     THEN EntityAddComponentHooked(w1, entity, c)
     ELSE w1

\* _indexEntitySystemHooked that calls enter before it records the pair
_indexEntitySystemEnterFirst(w, entity, sys) ==
  LET index == IndexOf(w.entitySystems[entity], sys)
      types == w.system[sys].componentTypes
      missing == \E a \in 1..Len(types) : types[a] \notin entityComponentIDs(w, entity)
      w1 == EnterHooked(w, entity, sys)
  IN IF ~Includes(w.systems, sys)
     THEN (IF index >= 0 THEN ExitPair(w, entity, sys) ELSE w)
     ELSE IF missing
     THEN (IF index >= 0
           THEN ExitPair(Fire(_inject(w, sys), Call("exit", sys, entity, << >>)),
                         entity, sys)
           ELSE w)
     ELSE IF index < 0
     THEN [w1 EXCEPT !.entitySystems[entity] = Append(@, sys),
                     !.lastUpdate[entity] = Put(@, sys, Num(w.clock)),
                     !.lastUpdateGame[entity] = Put(@, sys, Num(w.gameTime))]
     ELSE w

\* World._indexEntitySystem, the enter hook adding a component
_indexEntitySystemHooked(w, entity, sys) ==
  LET index == IndexOf(w.entitySystems[entity], sys)
      types == w.system[sys].componentTypes
      missing == \E a \in 1..Len(types) : types[a] \notin entityComponentIDs(w, entity)
  IN IF ~Includes(w.systems, sys)
     THEN (IF index >= 0 THEN ExitPair(w, entity, sys) ELSE w)
     ELSE IF missing
     THEN (IF index >= 0
           THEN ExitPair(Fire(_inject(w, sys), Call("exit", sys, entity, << >>)),
                         entity, sys)
           ELSE w)
     ELSE IF index < 0
     THEN EnterHooked([w EXCEPT !.entitySystems[entity] = Append(@, sys),
                                !.lastUpdate[entity] = Put(@, sys, Num(w.clock)),
                                !.lastUpdateGame[entity] = Put(@, sys, Num(w.gameTime))],
                      entity, sys)
     ELSE w

\* this._systems.forEach((sys) => this._indexEntitySystem(entity, sys))
IndexAllSystemsHooked(w, entity, k) ==
  IF k > Len(w.systems) THEN w
  ELSE IndexAllSystemsHooked(_indexEntitySystemHooked(w, entity, w.systems[k]), entity, k + 1)

\* World._indexEntity(entity), no sys given
_indexEntityHooked(w, entity) ==
  LET w1 == IF entity \in DOMAIN w.entitySystems THEN w
            ELSE [w EXCEPT !.entitySystems = Put(@, entity, << >>)]
  IN IndexAllSystemsHooked(w1, entity, 1)

\* this._subscriptions.forEach(...): each world closure runs _onEntityUpdate, _indexEntity
NotifySubscribersHooked(w, entity, added, removed, n) ==
  IF n = 0 THEN w
  ELSE NotifySubscribersHooked(
         _indexEntityHooked(_onEntityUpdate(w, entity, added, removed), entity),
         entity, added, removed, n - 1)

\* Entity.add
EntityAddComponentHooked(w, entity, component) ==
  LET type == TypeOf(component)
      list == IF type \in DOMAIN w.components[entity] THEN w.components[entity][type] ELSE << >>
  IN IF Includes(list, component) THEN w
     ELSE NotifySubscribersHooked(
            [w EXCEPT !.components[entity] = Put(@, type, Append(list, component))],
            entity, component, 0, w.subscriptions[entity])

\* Entity.remove
EntityRemoveComponentHooked(w, entity, component) ==
  LET type == TypeOf(component)
      list == w.components[entity][type]
      index == IndexOf(list, component)
      rest == Splice(list, index)
  IN IF type \notin DOMAIN w.components[entity] THEN w
     ELSE IF index < 0 THEN w
     ELSE NotifySubscribersHooked([w EXCEPT !.components[entity] =
                                              IF Len(rest) < 1 THEN Delete(@, type)
                                              ELSE Put(@, type, rest)],
                                  entity, 0, component, w.subscriptions[entity])

\* World.addEntity
addEntityHooked(w, entity) ==
  IF Includes(w.entities, entity) THEN w
  ELSE LET w1 == [w EXCEPT !.entities = Append(@, entity),
                           !.lastUpdate = Put(@, entity, << >>),
                           !.lastUpdateGame = Put(@, entity, << >>)]
           w2 == DropSubscription(w1, entity)
           w3 == [w2 EXCEPT !.entitySubscription = @ \cup {entity},
                            !.subscriptions[entity] = @ + 1]
           w4 == Fire(w3, Call("onAdded", 0, entity, << >>))
       IN _indexEntityHooked(w4, entity)

RECURSIVE IndexEntitiesHooked(_, _, _, _)
\* this._entities.forEach((entity) => this._indexEntity(entity, sys))
IndexEntitiesHooked(w, list, sys, k) ==
  IF k > Len(list) THEN w
  ELSE LET entity == list[k]
           w1 == IF entity \in DOMAIN w.entitySystems THEN w
                 ELSE [w EXCEPT !.entitySystems = Put(@, entity, << >>)]
       IN IndexEntitiesHooked(_indexEntitySystemHooked(w1, entity, sys), list, sys, k + 1)

RECURSIVE EnterEntitiesHooked(_, _, _, _)
\* the "Call system enter" loop of addSystem
EnterEntitiesHooked(w, list, sys, k) ==
  IF k > Len(list) THEN w
  ELSE LET entity == list[k]
           hit == /\ w.active[entity]
                  /\ entity \in DOMAIN w.entitySystems
                  /\ Includes(w.entitySystems[entity], sys)
       IN EnterEntitiesHooked(IF hit THEN EnterHooked(w, entity, sys) ELSE w,
                              list, sys, k + 1)

\* World.addSystem
addSystemHooked(w, sys) ==
  IF Includes(w.systems, sys) THEN w
  ELSE LET w1 == [w EXCEPT !.systems = Append(@, sys)]
           w2 == IndexEntitiesHooked(w1, w1.entities, sys, 1)
           w3 == EnterEntitiesHooked(w2, w2.entities, sys, 1)
       IN Fire(_inject(w3, sys), Call("onAdded", sys, 0, << >>))

\* ------------------------------------------------------- System listeners
\* System.addListener: a listener is the function fn, wrapped when once is set
addListener(w, sys, event, fn, once) ==
  LET list == IF event \in DOMAIN w.listeners[sys] THEN w.listeners[sys][event] ELSE << >>
  IN [w EXCEPT !.listeners[sys] = Put(@, event, Append(list, [fn |-> fn, once |-> once]))]

\* a once wrapper that leaves the listener list as it is
OnceKept(w, sys, event, listener) == w

\* the wrapper addListener builds for once: after the callback it splices
\* itself out of this.listeners[event] and deletes the entry when it is empty
OnceCleanup(w, sys, event, listener) ==
  LET index == IndexOf(w.listeners[sys][event], listener)
      rest == IF index >= 0 THEN Splice(w.listeners[sys][event], index)
              ELSE w.listeners[sys][event]
  IN [w EXCEPT !.listeners[sys] = IF Len(rest) = 0 THEN Delete(@, event)
                                  ELSE Put(@, event, rest)]

\* the array listeners[event] as forEach sees it: the entry, or the emptied
\* array once the entry is deleted
LiveListeners(w, sys, event) ==
  IF event \in DOMAIN w.listeners[sys] THEN w.listeners[sys][event] ELSE << >>

RECURSIVE RunListeners(_, _, _, _, _)
\* listeners[event].forEach((listener) => listener(data, entitiesIterator)) on
\* the live array: a once listener removes itself while forEach is running
RunListeners(w, sys, event, k, len) ==
  LET list == LiveListeners(w, sys, event)
      listener == list[k]
      w1 == Fire(w, Call("listener", sys, 0, <<event, listener.fn>>))
  IN IF k > len THEN w
     ELSE IF k > Len(list) THEN RunListeners(w, sys, event, k + 1, len)
     ELSE RunListeners(IF listener.once THEN OnceCleanup(w1, sys, event, listener) ELSE w1,
                       sys, event, k + 1, len)

RECURSIVE TriggerEach(_, _, _)
\* this._systems.forEach(...) of _systemTrigger
TriggerEach(w, event, k) ==
  LET sys == w.systems[k]
  IN IF k > Len(w.systems) THEN w
     ELSE IF event \in DOMAIN w.listeners[sys] /\ Len(w.listeners[sys][event]) > 0
     THEN TriggerEach(RunListeners(_inject(w, sys), sys, event, 1,
                                   Len(w.listeners[sys][event])),
                      event, k + 1)
     ELSE TriggerEach(w, event, k + 1)

\* World._systemTrigger
_systemTrigger(w, event) == TriggerEach(w, event, 1)

\* ----------------------------------------------------------- World, tick
\* getActiveSystems without its filter on the world state
getEverySystem(w) == w.systems

\* World.getActiveSystems
getActiveSystems(w) ==
  SelectSeq(w.systems,
            LAMBDA sys : \/ Includes(w.system[sys].states, ECSStateAny)
                         \/ Includes(w.system[sys].states, w.state))

\* GateSystem with the frequency gate applied to the game-clock elapsed time
\* instead of the wall-clock elapsed time
GateSystemOnGameClock(r, entity, sys, time) ==
  LET w == r.w
      elapsed == Minus(Num(time), Lookup(w.lastUpdate[entity], sys))
      elapsedScaled == Minus(Num(w.gameTime), Lookup(w.lastUpdateGame[entity], sys))
      interval == Num(1000 \div w.system[sys].frequency)
      stamp == IF w.system[sys].frequency > 0
               THEN Minus(Num(time), Remainder(elapsed, interval))
               ELSE Num(time)
  IN IF sys \in DOMAIN r.updated
     THEN [r EXCEPT !.updated[sys].entities = Append(@, entity)]
     ELSE IF w.system[sys].frequency > 0 /\ LessThan(elapsedScaled, interval)
     THEN r
     ELSE [w |-> [w EXCEPT !.lastUpdate[entity] = Put(@, sys, stamp),
                           !.lastUpdateGame[entity] = Put(@, sys, Num(w.gameTime))],
           updated |-> Put(r.updated, sys, [delta |-> elapsedScaled, entities |-> <<entity>>])]

\* GateSystem that stamps a throttled pair with the time of the tick, without
\* the remainder of the elapsed time
GateSystemStampNow(r, entity, sys, time) ==
  LET w == r.w
      elapsed == Minus(Num(time), Lookup(w.lastUpdate[entity], sys))
      elapsedScaled == Minus(Num(w.gameTime), Lookup(w.lastUpdateGame[entity], sys))
      interval == Num(1000 \div w.system[sys].frequency)
  IN IF sys \in DOMAIN r.updated
     THEN [r EXCEPT !.updated[sys].entities = Append(@, entity)]
     ELSE IF w.system[sys].frequency > 0 /\ LessThan(elapsed, interval)
     THEN r
     ELSE [w |-> [w EXCEPT !.lastUpdate[entity] = Put(@, sys, Num(time)),
                           !.lastUpdateGame[entity] = Put(@, sys, Num(w.gameTime))],
           updated |-> Put(r.updated, sys, [delta |-> elapsedScaled, entities |-> <<entity>>])]

\* the body of this.getActiveSystems().forEach(...) in update, for one system:
\* r is [w, updated], updated maps a system id to its batch of this tick
GateSystem(r, entity, sys, time) ==
  LET w == r.w
      elapsed == Minus(Num(time), Lookup(w.lastUpdate[entity], sys))
      elapsedScaled == Minus(Num(w.gameTime), Lookup(w.lastUpdateGame[entity], sys))
      interval == Num(1000 \div w.system[sys].frequency)
      stamp == IF w.system[sys].frequency > 0
               THEN Minus(Num(time), Remainder(elapsed, interval))
               ELSE Num(time)
  IN IF sys \in DOMAIN r.updated
     THEN [r EXCEPT !.updated[sys].entities = Append(@, entity)]
     ELSE IF w.system[sys].frequency > 0 /\ LessThan(elapsed, interval)
     THEN r
     ELSE [w |-> [w EXCEPT !.lastUpdate[entity] = Put(@, sys, stamp),
                           !.lastUpdateGame[entity] = Put(@, sys, Num(w.gameTime))],
           updated |-> Put(r.updated, sys, [delta |-> elapsedScaled, entities |-> <<entity>>])]

RECURSIVE GateSystems(_, _, _, _, _)
\* this.getActiveSystems().forEach(...) of update, for one entity
GateSystems(r, entity, list, time, j) ==
  IF j > Len(list) THEN r
  ELSE GateSystems(GateSystem(r, entity, list[j], time), entity, list, time, j + 1)

RECURSIVE ScanEntities(_, _, _, _)
\* this._entities.forEach(...) of update: forEach visits the indices 0..len-1 of
\* the array as it is when each index is reached, so a splice made by
\* removeEntity shifts the following entities under the cursor
ScanEntities(r, time, k, len) ==
  IF k > len \/ r.w.fault THEN r
  ELSE IF k > Len(r.w.entities) THEN ScanEntities(r, time, k + 1, len)
  ELSE LET entity == r.w.entities[k]
       IN IF ~r.w.active[entity]
          THEN ScanEntities([r EXCEPT !.w = removeEntity(r.w, entity)], time, k + 1, len)
          ELSE IF entity \notin DOMAIN r.w.entitySystems
          THEN ScanEntities(r, time, k + 1, len)
          ELSE ScanEntities(GateSystems(r, entity, getActiveSystems(r.w), time, 1),
                            time, k + 1, len)

RECURSIVE UpdateEach(_, _, _, _, _)
\* entities.forEach((entity) => system.update(this._gameTime, delta, entity))
UpdateEach(w, sys, delta, list, k) ==
  IF k > Len(list) THEN w
  ELSE UpdateEach(Fire(w, Call("update", sys, list[k], <<w.gameTime, delta>>)),
                  sys, delta, list, k + 1)

\* DispatchBatch with afterUpdateAll called ahead of the update calls
DispatchBatchAfterFirst(w, sys, batch) ==
  LET w1 == Fire(_inject(w, sys),
                 Call("beforeUpdateAll", sys, 0, <<w.gameTime, batch.delta, batch.entities>>))
      w2 == Fire(w1, Call("afterUpdateAll", sys, 0, <<w.gameTime, batch.delta, batch.entities>>))
  IN UpdateEach(w2, sys, batch.delta, batch.entities, 1)

\* one entry of Object.values(updated).forEach(...)
DispatchBatch(w, sys, batch) ==
  LET w1 == Fire(_inject(w, sys),
                 Call("beforeUpdateAll", sys, 0, <<w.gameTime, batch.delta, batch.entities>>))
      w2 == UpdateEach(w1, sys, batch.delta, batch.entities, 1)
  IN Fire(w2, Call("afterUpdateAll", sys, 0, <<w.gameTime, batch.delta, batch.entities>>))

RECURSIVE Dispatch(_, _, _)
\* Object.values(updated): the keys are integer strings, enumerated in ascending order
Dispatch(w, updated, done) ==
  LET left == DOMAIN updated \ done
      sys == CHOOSE s \in left : \A x \in left : s <= x
  IN IF left = {} THEN w
     ELSE Dispatch(DispatchBatch(w, sys, updated[sys]), updated, done \cup {sys})

\* World.update
update(w) ==
  LET time == w.clock
      w1 == [w EXCEPT !.gameTime = @ + (time - w.lastUpdateTime) * w.timeScale,
                      !.lastUpdateTime = time]
      r == ScanEntities([w |-> w1, updated |-> << >>], time, 1, Len(w1.entities))
  IN IF r.w.fault THEN r.w ELSE Dispatch(r.w, r.updated, {})

RECURSIVE RemoveEachEntity(_, _, _)
\* this._entities.forEach((entity) => this.removeEntity(entity)) on the live array
RemoveEachEntity(w, k, len) ==
  IF k > len \/ w.fault THEN w
  ELSE IF k > Len(w.entities) THEN RemoveEachEntity(w, k + 1, len)
  ELSE RemoveEachEntity(removeEntity(w, w.entities[k]), k + 1, len)

RECURSIVE RemoveEachSystem(_, _, _)
\* this._systems.forEach((system) => this.removeSystem(system)) on the live array
RemoveEachSystem(w, k, len) ==
  IF k > len THEN w
  ELSE IF k > Len(w.systems) THEN RemoveEachSystem(w, k + 1, len)
  ELSE RemoveEachSystem(removeSystem(w, w.systems[k]), k + 1, len)

\* World.destroy
destroy(w) ==
  LET w1 == RemoveEachEntity(w, 1, Len(w.entities))
  IN IF w1.fault THEN w1 ELSE RemoveEachSystem(w1, 1, Len(w1.systems))

RECURSIVE StateChangeEach(_, _, _, _)
\* this._systems.forEach((system) => system.onStateChange?.(state, oldState))
StateChangeEach(w, new, old, k) ==
  IF k > Len(w.systems) THEN w
  ELSE StateChangeEach(Fire(w, Call("onStateChange", w.systems[k], 0, <<new, old>>)),
                       new, old, k + 1)

\* setState that returns early when the state does not change
setStateIfChanged(w, new) ==
  IF new = w.state THEN w ELSE StateChangeEach([w EXCEPT !.state = new], new, w.state, 1)

\* World.setState
setState(w, new) == StateChangeEach([w EXCEPT !.state = new], new, w.state, 1)

\* ------------------------------------- World, tick with mutating hooks
\* the world mutation m made by the body of a hook
Mutate(w, m) ==
  CASE m.kind = "addEntity" -> addEntity(w, m.e)
    [] m.kind = "removeEntity" -> removeEntityById(w, m.e)
    [] m.kind = "addSystem" -> addSystem(w, m.s)
    [] m.kind = "removeSystem" -> removeSystemById(w, m.s)
    [] m.kind = "entity.add" -> EntityAddComponent(w, m.e, m.c)
    [] m.kind = "entity.remove" -> EntityRemoveComponent(w, m.e, m.c)
    [] OTHER -> setState(w, m.c)

\* a tick hook is called; when it is the hook of the plan, called for the first
\* time in the tick, its body mutates the world
FireHook(w, c, plan, first) ==
  IF plan.hook = c.hook /\ plan.s = c.s /\ first
  THEN Mutate(Fire(w, c), plan.m)
  ELSE Fire(w, c)

RECURSIVE UpdateEachLive(_, _, _, _, _, _)
\* UpdateEachHooked that leaves out the entities of the batch that are no
\* longer in the world when their turn comes
UpdateEachLive(w, sys, delta, list, k, plan) ==
  IF k > Len(list) THEN w
  ELSE UpdateEachLive(IF Includes(w.entities, list[k])
                      THEN FireHook(w, Call("update", sys, list[k], <<w.gameTime, delta>>),
                                    plan, k = 1)
                      ELSE w,
                      sys, delta, list, k + 1, plan)

RECURSIVE UpdateEachHooked(_, _, _, _, _, _)
\* entities.forEach((entity) => system.update(this._gameTime, delta, entity)),
\* entities being the array of the batch
UpdateEachHooked(w, sys, delta, list, k, plan) ==
  IF k > Len(list) THEN w
  ELSE UpdateEachHooked(FireHook(w, Call("update", sys, list[k], <<w.gameTime, delta>>),
                                 plan, k = 1),
                        sys, delta, list, k + 1, plan)

\* one entry of Object.values(updated).forEach(...), the hooks mutating the world
DispatchBatchHooked(w, sys, batch, plan) ==
  LET w1 == FireHook(_inject(w, sys),
                     Call("beforeUpdateAll", sys, 0, <<w.gameTime, batch.delta, batch.entities>>),
                     plan, TRUE)
      w2 == UpdateEachHooked(w1, sys, batch.delta, batch.entities, 1, plan)
  IN FireHook(w2, Call("afterUpdateAll", sys, 0, <<w2.gameTime, batch.delta, batch.entities>>),
              plan, TRUE)

RECURSIVE DispatchHooked(_, _, _, _)
\* Object.values(updated): the array of the batches as they are when the scan ends
DispatchHooked(w, updated, done, plan) ==
  LET left == DOMAIN updated \ done
      sys == CHOOSE s \in left : \A x \in left : s <= x
  IN IF left = {} THEN w
     ELSE DispatchHooked(DispatchBatchHooked(w, sys, updated[sys], plan),
                         updated, done \cup {sys}, plan)

\* World.update, a tick hook mutating the world
updateHooked(w, plan) ==
  LET time == w.clock
      w1 == [w EXCEPT !.gameTime = @ + (time - w.lastUpdateTime) * w.timeScale,
                      !.lastUpdateTime = time]
      r == ScanEntities([w |-> w1, updated |-> << >>], time, 1, Len(w1.entities))
  IN IF r.w.fault THEN r.w ELSE DispatchHooked(r.w, r.updated, {}, plan)

\* World.queryEntitiesByComponent: the world after the call
queryEntitiesByComponent(w, componentType) ==
  LET found == SelectSeq(w.entities,
                         LAMBDA entity : componentType \in entityComponentIDs(w, entity))
  IN IF componentType \in DOMAIN w.queryCache
     THEN [w EXCEPT !.ret = w.queryCache[componentType]]
     ELSE IF Len(found) > 0
     THEN [w EXCEPT !.queryCache = Put(@, componentType, found), !.ret = found]
     ELSE [w EXCEPT !.ret = found]

\* ------------------------------------------------------- World.query
\* the callback World.query gives to its Iterator, index being the variable
\* of the closure (0-based): the loop runs from index to the first entity that
\* has every requested type and returns it, leaving index on that entity; the
\* value 0 stands for undefined
QueryNext(w, componentTypes, index) ==
  LET hit(k) == \/ Includes(componentTypes, Wildcard)
                \/ \A i \in 1..Len(componentTypes) :
                     componentTypes[i] \in entityComponentIDs(w, w.entities[k])
      hits == {k \in (index + 1)..Len(w.entities) : hit(k)}
      first == CHOOSE k \in hits : \A x \in hits : k <= x
  IN IF hits = {}
     THEN [value |-> 0, index |-> IF index < Len(w.entities) THEN Len(w.entities) ELSE index]
     ELSE [value |-> w.entities[first], index |-> first - 1]

RECURSIVE EachAll(_, _, _, _)
\* Iterator.each(test) on a fresh iterator of query(componentTypes), test never
\* returning false: every value _next yields is cached and handed to test,
\* until _next yields undefined.  The traversal is followed for at most
\* `more` items; ret tells whether each() has returned by then.
EachAll(w, componentTypes, index, more) ==
  LET r == QueryNext(w, componentTypes, index)
  IN IF r.value = 0 THEN [w EXCEPT !.ret = TRUE]
     ELSE IF more = 0 THEN [w EXCEPT !.ret = FALSE]
     ELSE EachAll(Fire(w, Call("test", 0, r.value, << >>)), componentTypes, r.index, more - 1)

\* World.query(componentTypes).each(test): followed for one item more than the
\* world has entities, so that a traversal that is cut has repeated an entity
query(w, componentTypes) == EachAll(w, componentTypes, 0, Len(w.entities) + 1)

\* ---------------------------------------------------------------- actions
AddEntity(e) == Commit(addEntity(W, e), Op("addEntity", e, 0, 0))

RemoveEntity(e) == Commit(removeEntity(W, e), Op("removeEntity", e, 0, 0))

RemoveEntityById(e) == Commit(removeEntityById(W, e), Op("removeEntityById", e, 0, 0))

AddSystem(s) == Commit(addSystem(W, s), Op("addSystem", 0, s, 0))

RemoveSystem(s) == Commit(removeSystem(W, s), Op("removeSystem", 0, s, 0))

RemoveSystemById(s) == Commit(removeSystemById(W, s), Op("removeSystemById", 0, s, 0))

EntityAdd(e, c) == Commit(EntityAddComponent(W, e, c), Op("entity.add", e, 0, c))

EntityRemove(e, c) == Commit(EntityRemoveComponent(W, e, c), Op("entity.remove", e, 0, c))

\* the application sets entity.active
SetActive(e, b) ==
  /\ active[e] # b
  /\ Commit([W EXCEPT !.active[e] = b], Op("entity.active", e, 0, 0))

SetState(x) == Commit(setState(W, x), Op("setState", 0, 0, x))

\* real time passes
Tick ==
  \E d \in ClockSteps :
    /\ clock + d <= MaxClock * 1000
    /\ Commit([W EXCEPT !.clock = @ + d], Op("tick", 0, 0, 0))

\* real time passes, in steps shorter than the interval of a throttled system
TickFine ==
  \E d \in FineSteps :
    /\ clock + d <= MaxClock * 1000
    /\ Commit([W EXCEPT !.clock = @ + d], Op("tick", 0, 0, 0))

Update == Commit(update(W), Op("update", 0, 0, 0))

\* the application assigns world.timeScale
SetTimeScale(k) ==
  /\ timeScale # k
  /\ Commit([W EXCEPT !.timeScale = k], Op("timeScale", 0, 0, k))

Destroy == Commit(destroy(W), Op("destroy", 0, 0, 0))

QueryEntitiesByComponent(t) ==
  Commit(queryEntitiesByComponent(W, t), Op("queryEntitiesByComponent", 0, 0, t))

\* entities, systems and components: registration and mutation
Next ==
  \/ \E e \in Entities : AddEntity(e)
  \/ \E e \in Entities : RemoveEntity(e)
  \/ \E e \in Entities : RemoveEntityById(e)
  \/ \E s \in Systems : AddSystem(s)
  \/ \E s \in Systems : RemoveSystem(s)
  \/ \E s \in Systems : RemoveSystemById(s)
  \/ \E e \in Entities : \E c \in Attachable(e) : EntityAdd(e, c)
  \/ \E e \in Entities : \E c \in Attachable(e) : EntityRemove(e, c)

Spec == Init /\ [][Next]_vars

\* the by-component query cache and entity removal
NextCache ==
  \/ \E e \in Entities : AddEntity(e)
  \/ \E e \in Entities : RemoveEntity(e)
  \/ \E e \in Entities : RemoveEntityById(e)
  \/ \E e \in Entities : \E c \in Attachable(e) \cap {1, 3} : EntityAdd(e, c)
  \/ \E e \in Entities : \E c \in Attachable(e) \cap {1, 3} : EntityRemove(e, c)
  \/ \E t \in {Wildcard, 1, 2} : QueryEntitiesByComponent(t)
  \/ \E e \in Entities : SetActive(e, FALSE)
  \/ Update

SpecCache == Init /\ [][NextCache]_vars

\* the tick and the teardown
NextUpdate ==
  \/ \E e \in Entities : AddEntity(e)
  \/ \E s \in Systems : AddSystem(s)
  \/ \E e \in Entities : \E c \in Attachable(e) \cap {1} : EntityAdd(e, c)
  \/ \E e \in Entities : SetActive(e, FALSE)
  \/ \E x \in States : SetState(x)
  \/ Tick
  \/ Update
  \/ Destroy

SpecUpdate == Init /\ [][NextUpdate]_vars

InitFreq == InitWith(FreqSystems)

\* the tick of throttled systems
NextFreq ==
  \/ \E e \in Entities : AddEntity(e)
  \/ \E s \in Systems : AddSystem(s)
  \/ \E c \in Attachable(1) \cap {1} : EntityAdd(1, c)
  \/ TickFine
  \/ Update

SpecFreq == InitFreq /\ [][NextFreq]_vars

\* a second world in which the system is registered too adds it or invokes
\* one of its hooks: its _inject makes system.world that other world
OtherWorldInject(s) ==
  /\ systemWorld[s] # "other"
  /\ Commit([W EXCEPT !.systemWorld[s] = "other"], Op("other._inject", 0, s, 0))

\* the application traverses world.query(componentTypes)
QueryEach(types) == Commit(query(W, types), Op("query.each", 0, 0, types))

\* a listener of a system of the world traverses the iterator _systemTrigger
\* hands to it, this.query(system.componentTypes)
ListenerEach(s) ==
  /\ Includes(_systems, s)
  /\ \E ev \in Events : Len(LiveListeners(W, s, ev)) > 0
  /\ Commit(query(W, system[s].componentTypes), Op("listener.each", 0, s, 0))

\* a system registers a function it has not yet registered for the event
AddListener(s, event, fn, once) ==
  /\ \A i \in 1..Len(LiveListeners(W, s, event)) : LiveListeners(W, s, event)[i].fn # fn
  /\ Commit(addListener(W, s, event, fn, once), Op("addListener", 0, s, fn))

\* a system of the world calls this.trigger(event, data)
Trigger(event) ==
  /\ \E s \in Systems : Includes(_systems, s) /\ systemWorld[s] = "this"
  /\ Commit(_systemTrigger(W, event), Op("trigger", 0, 0, event))

\* events and listeners
NextTrigger ==
  \/ \E e \in Entities : AddEntity(e)
  \/ \E s \in Systems : AddSystem(s)
  \/ \E s \in Systems : RemoveSystemById(s)
  \/ \E s \in Systems : \E ev \in Events : \E fn \in ListenerFns : \E once \in BOOLEAN :
       AddListener(s, ev, fn, once)
  \/ \E ev \in Events : Trigger(ev)

SpecTrigger == Init /\ [][NextTrigger]_vars

\* registration and mutation with a system that declares no component type
SpecEmptyTypes == InitWith(EmptyTypeSystems) /\ [][Next]_vars

\* registration and mutation with a system that combines the wildcard with a type
SpecChange == InitWith(QuerySystems) /\ [][Next]_vars

\* queries and the iterators handed to listeners
NextQuery ==
  \/ \E e \in Entities : AddEntity(e)
  \/ \E s \in Systems : AddSystem(s)
  \/ \E e \in Entities : \E c \in Attachable(e) \cap {1, 3} : EntityAdd(e, c)
  \/ \E e \in Entities : \E c \in Attachable(e) \cap {1, 3} : EntityRemove(e, c)
  \/ \E s \in Systems : \E ev \in Events : AddListener(s, ev, 1, FALSE)
  \/ \E types \in QueryTypes : QueryEach(types)
  \/ \E s \in Systems : ListenerEach(s)

SpecQuery == InitWith(QuerySystems) /\ [][NextQuery]_vars

\* systems removed while entities are switched off and on
NextActive ==
  \/ \E e \in Entities : AddEntity(e)
  \/ \E s \in Systems : AddSystem(s)
  \/ \E s \in Systems : RemoveSystemById(s)
  \/ \E e \in Entities : \E c \in Attachable(e) \cap {1, 3} : EntityAdd(e, c)
  \/ \E e \in Entities : \E b \in BOOLEAN : SetActive(e, b)
  \/ Update

SpecActive == Init /\ [][NextActive]_vars

\* update() with a hook whose body mutates the world
UpdateWithHook(plan) == Commit(updateHooked(W, plan), Op("updateWithHook", 0, plan.s, plan))

\* ticks whose hooks mutate the world
NextHooks ==
  \/ \E e \in Entities : AddEntity(e)
  \/ \E s \in Systems : AddSystem(s)
  \/ \E e \in Entities : \E c \in Attachable(e) \cap {1} : EntityAdd(e, c)
  \/ \E plan \in HookPlans : UpdateWithHook(plan)

SpecHooks == Init /\ [][NextHooks]_vars

AddEntityHooked(e) == Commit(addEntityHooked(W, e), Op("addEntity", e, 0, 0))

AddSystemHooked(s) == Commit(addSystemHooked(W, s), Op("addSystem", 0, s, 0))

EntityAddHooked(e, c) == Commit(EntityAddComponentHooked(W, e, c), Op("entity.add", e, 0, c))

EntityRemoveHooked(e, c) ==
  Commit(EntityRemoveComponentHooked(W, e, c), Op("entity.remove", e, 0, c))

\* registration and mutation with a system whose enter hook adds a component
NextFactory ==
  \/ \E e \in Entities : AddEntityHooked(e)
  \/ \E e \in Entities : RemoveEntityById(e)
  \/ \E s \in Systems : AddSystemHooked(s)
  \/ \E s \in Systems : RemoveSystemById(s)
  \/ \E e \in Entities : \E c \in Attachable(e) : EntityAddHooked(e, c)
  \/ \E e \in Entities : \E c \in Components : EntityRemoveHooked(e, c)

SpecFactory == Init /\ [][NextFactory]_vars

\* a system shared with a second world
NextWorlds ==
  \/ \E e \in Entities : AddEntity(e)
  \/ \E e \in Entities : RemoveEntity(e)
  \/ \E s \in Systems : AddSystem(s)
  \/ \E s \in Systems : RemoveSystemById(s)
  \/ \E s \in Systems : OtherWorldInject(s)
  \/ \E e \in Entities : \E c \in Attachable(e) \cap {1} : EntityAdd(e, c)
  \/ \E e \in Entities : \E c \in Attachable(e) \cap {1} : EntityRemove(e, c)
  \/ \E s \in Systems : \E ev \in Events : AddListener(s, ev, 1, FALSE)
  \/ \E ev \in Events : Trigger(ev)
  \/ Update

SpecWorlds == Init /\ [][NextWorlds]_vars

\* the world state and the hooks it gates
NextState ==
  \/ \E e \in Entities : AddEntity(e)
  \/ \E s \in Systems : AddSystem(s)
  \/ \E s \in Systems : RemoveSystemById(s)
  \/ \E e \in Entities : \E c \in Attachable(e) \cap {1, 3} : EntityAdd(e, c)
  \/ \E e \in Entities : \E c \in Attachable(e) \cap {1, 3} : EntityRemove(e, c)
  \/ \E x \in States : SetState(x)
  \/ Update

SpecState == Init /\ [][NextState]_vars

\* the tick under a changing timeScale
NextScale ==
  \/ \E e \in Entities : AddEntity(e)
  \/ \E s \in Systems : AddSystem(s)
  \/ \E e \in Entities : \E c \in Attachable(e) \cap {1} : EntityAdd(e, c)
  \/ \E k \in TimeScales : SetTimeScale(k)
  \/ \E x \in States : SetState(x)
  \/ Tick
  \/ Update

SpecScale == Init /\ [][NextScale]_vars

\* ----------------------------------------------- two worlds, side by side
\* the second world as the operation finds it
TwinW == [twin EXCEPT !.calls = << >>, !.fault = FALSE, !.at = << >>, !.ret = << >>]

\* the result w of an operation on the world and the result w2 of the same
\* operation on the second world
Both(w, w2, o) == Store(w, o) /\ twin' = w2

InitTwin == InitState(FreqSystems) /\ twin = [W EXCEPT !.timeScale = 2]

TwinAddEntity(e) == Both(addEntity(W, e), addEntity(TwinW, e), Op("addEntity", e, 0, 0))

TwinAddSystem(s) == Both(addSystem(W, s), addSystem(TwinW, s), Op("addSystem", 0, s, 0))

TwinEntityAdd(e, c) ==
  Both(EntityAddComponent(W, e, c), EntityAddComponent(TwinW, e, c),
       Op("entity.add", e, 0, c))

TwinTick ==
  \E d \in FineSteps :
    /\ clock + d <= MaxClock * 1000
    /\ Both([W EXCEPT !.clock = @ + d], [TwinW EXCEPT !.clock = @ + d], Op("tick", 0, 0, 0))

TwinUpdate == Both(update(W), update(TwinW), Op("update", 0, 0, 0))

\* the same operations at the same instants on a world with timeScale 1 and on
\* a world with timeScale 2
NextTwin ==
  \/ \E e \in Entities : TwinAddEntity(e)
  \/ \E s \in Systems : TwinAddSystem(s)
  \/ \E c \in Attachable(1) \cap {1} : TwinEntityAdd(1, c)
  \/ TwinTick
  \/ TwinUpdate

SpecTwin == InitTwin /\ [][NextTwin]_vars

\* ----------------------------------------------------------------- claims
\* the entity's component-type set, wildcard included, holds every type of T
Satisfies(comps, T) ==
  \A a \in 1..Len(T) : T[a] \in {Wildcard} \cup DOMAIN comps

\* how often hook was invoked on system s for entity e by one operation
Count(cs, hook, s, e) ==
  Cardinality({i \in 1..Len(cs) : cs[i].hook = hook /\ cs[i].s = s /\ cs[i].e = e})

Indexed(index, e, s) == e \in DOMAIN index /\ Includes(index[e], s)

\* C1: in a tick, system s receives update(time, delta, e) only if s is in
\* e's index list, that is only if e holds every type s requires.
C1_UpdateOnlyIndexed ==
  op.name = "update" =>
    \A i \in 1..Len(calls) :
      calls[i].hook = "update" =>
        /\ Indexed(_entitySystems, calls[i].e, calls[i].s)
        /\ Satisfies(components[calls[i].e], system[calls[i].s].componentTypes)

\* C2: for every entity e of the world and every system s, s is in e's index
\* list iff s is registered and e's type set is a superset of s's types.
C2_IndexIsRecomputation ==
  \A e \in Entities : \A s \in Systems :
    Includes(_entities, e) =>
      (Indexed(_entitySystems, e, s) <=>
         (Includes(_systems, s) /\ Satisfies(components[e], system[s].componentTypes)))

RECURSIVE Alternates(_, _, _, _, _)
\* the enter / exit calls of cs for the pair (e, s) alternate, the first being
\* an enter iff the last hook fired for the pair so far was not an enter
Alternates(inside, cs, e, s, k) ==
  IF k > Len(cs) THEN TRUE
  ELSE IF cs[k].hook \in {"enter", "exit"} /\ cs[k].e = e /\ cs[k].s = s
  THEN (cs[k].hook = "enter") # inside /\ Alternates(cs[k].hook = "enter", cs, e, s, k + 1)
  ELSE Alternates(inside, cs, e, s, k + 1)

\* C3: for every (entity, system) pair and every sequence of operations, the
\* calls enter(e) and exit(e) strictly alternate, starting with enter.
C3_EnterExitAlternate ==
  [][\A e \in Entities : \A s \in Systems : Alternates(entered[e][s], calls', e, s, 1)]_vars

\* One step of the scenario of C4 for system s (registered, no wildcard among
\* its types T) and entity e.  With strict = FALSE, exit is expected whenever
\* e.remove deletes the last instance of a type of T; with strict = TRUE only
\* when, in addition, e satisfied T before the removal.
C4Step(strict) ==
  \A e \in Entities : \A s \in Systems :
    LET T == system[s].componentTypes
        before == Satisfies(components[e], T)
        after == Satisfies(components'[e], T)
        type == TypeOf(op'.c)
        lastOfT == /\ type \in DOMAIN components[e]
                   /\ type \notin DOMAIN components'[e]
                   /\ Includes(T, type)
        enters == Count(calls', "enter", s, e)
        exits == Count(calls', "exit", s, e)
    IN (Includes(_systems, s) /\ ~Includes(T, Wildcard) /\ op'.e = e) =>
         /\ (op'.name = "addEntity" /\ ~Includes(_entities, e) /\ ~before) => enters = 0
         /\ (op'.name = "entity.add" /\ Includes(_entities, e)) =>
              /\ enters = (IF ~before /\ after THEN 1 ELSE 0)
              /\ exits = 0
         /\ (op'.name = "entity.remove" /\ Includes(_entities, e)) =>
              /\ exits = (IF lastOfT /\ (strict => before) THEN 1 ELSE 0)
              /\ enters = 0

\* C4 (as claimed): with S registered and e in the world, addEntity of a
\* non-matching e fires no enter; e.add fires S.enter(e) once iff it makes e
\* satisfy T; e.remove fires S.exit(e) once iff it deletes the last instance
\* of a type of T; further instances fire nothing.
C4_ExitOnLastInstance == [][C4Step(FALSE)]_vars

\* C4 (amended): as above, but e.remove fires S.exit(e) once iff e satisfied
\* T before the removal and the removal deletes the last instance of a type
\* of T.
C4_ExitOnLastInstanceOfSatisfied == [][C4Step(TRUE)]_vars

\* e.remove has just made an entity of the world leave the two-type system
C4_Witness ==
  /\ op.name = "entity.remove"
  /\ Includes(_entities, op.e)
  /\ Includes(_systems, 2)
  /\ Count(calls, "exit", 2, op.e) = 1
  /\ TypeOf(op.c) \notin DOMAIN components[op.e]

\* C5: removeSystem(s) with s not registered is a no-op: system list, index
\* lists and timestamp tables are unchanged and no hook is fired.
C5_RemoveAbsentSystemNoOp ==
  [][(op'.name \in {"removeSystem", "removeSystemById"} /\ ~Includes(_systems, op'.s)) =>
       /\ _systems' = _systems
       /\ _entitySystems' = _entitySystems
       /\ _entitySystemLastUpdate' = _entitySystemLastUpdate
       /\ _entitySystemLastUpdateGame' = _entitySystemLastUpdateGame
       /\ calls' = << >>]_vars

\* C6: removeEntity(e) with e (object or id) not in the world is a no-op:
\* entity list, index, timestamp tables, subscriptions and query cache are
\* unchanged and no hook is fired.
C6_RemoveAbsentEntityNoOp ==
  [][(op'.name \in {"removeEntity", "removeEntityById"} /\ ~Includes(_entities, op'.e)) =>
       /\ _entities' = _entities
       /\ _entitySystems' = _entitySystems
       /\ _entitySystemLastUpdate' = _entitySystemLastUpdate
       /\ _entitySystemLastUpdateGame' = _entitySystemLastUpdateGame
       /\ _entitySubscription' = _entitySubscription
       /\ _subscriptions' = _subscriptions
       /\ _queryCache' = _queryCache
       /\ calls' = << >>]_vars

\* C7: removeEntity(e) of an entity in the world raises no fault in any
\* reachable state, whatever the query cache holds; neither does update()
\* when it removes an inactive entity.
C7_RemoveEntityNeverFaults ==
  [][(\/ op'.name \in {"removeEntity", "removeEntityById"} /\ Includes(_entities, op'.e)
      \/ op'.name = "update") => ~fault']_vars

\* C8: after destroy() the world holds no entities and no systems, the index,
\* timestamp and subscription tables are empty, and onRemoved was called
\* exactly once on every entity that was in the world.
C8_DestroyEmptiesWorld ==
  [][op'.name = "destroy" =>
       /\ _entities' = << >>
       /\ _systems' = << >>
       /\ _entitySystems' = << >>
       /\ _entitySystemLastUpdate' = << >>
       /\ _entitySystemLastUpdateGame' = << >>
       /\ _entitySubscription' = {}
       /\ \A e \in Entities :
            Includes(_entities, e) => Count(calls', "onRemoved", 0, e) = 1]_vars

\* C9: after update() every entity that was inactive when the tick started is
\* out of the world (list, index, timestamps, subscription) and received no
\* update call in that tick.
C9_InactiveRemovedByTick ==
  [][op'.name = "update" =>
       \A e \in Entities :
         (Includes(_entities, e) /\ ~active[e]) =>
           /\ ~Includes(_entities', e)
           /\ e \notin DOMAIN _entitySystems'
           /\ e \notin DOMAIN _entitySystemLastUpdate'
           /\ e \notin DOMAIN _entitySystemLastUpdateGame'
           /\ e \notin _entitySubscription'
           /\ \A s \in Systems : Count(calls', "update", s, e) = 0]_vars

\* C10: in every tick, every active entity e and every registered system s of
\* frequency 0 that is indexed for e and admissible under the current state:
\* s.update(time, delta, e) is called exactly once.
C10_UnthrottledUpdatedOncePerTick ==
  [][op'.name = "update" =>
       \A e \in Entities : \A s \in Systems :
         (/\ Includes(_entities, e) /\ active[e]
          /\ Includes(_systems, s) /\ system[s].frequency = 0
          /\ Indexed(_entitySystems, e, s)
          /\ (Includes(system[s].states, ECSStateAny) \/ Includes(system[s].states, _state)))
         => Count(calls', "update", s, e) = 1]_vars

\* the timestamp of the pair (e, s) in a timestamp table, NaN when there is none
StampOf(table, e, s) == IF e \in DOMAIN table THEN Lookup(table[e], s) ELSE NaN

\* C11: a system with frequency F > 0 never receives update(.., e) in a tick
\* in which the wall time elapsed since the wall timestamp of the pair (e, s)
\* is smaller than 1000/F ms, whatever other entities match s.
C11_ThrottledPairNeverEarly ==
  [][op'.name = "update" =>
       \A i \in 1..Len(calls') :
         (calls'[i].hook = "update" /\ system[calls'[i].s].frequency > 0) =>
           ~LessThan(Minus(Num(clock'),
                           StampOf(_entitySystemLastUpdate, calls'[i].e, calls'[i].s)),
                     Num(1000 \div system[calls'[i].s].frequency))]_vars

\* C12: a system with frequency F > 0 updates one entity at most
\* floor(W * F / 1000) + 1 times within a wall-clock window of W ms; here for
\* the windows that span two consecutive update() calls.
C12_ThrottledRateBound ==
  [][op'.name = "update" =>
       \A s \in DOMAIN lastTick \cap DOMAIN lastTick' : \A e \in Entities :
         LET window == lastTick'[s].time - lastTick[s].time
             n == (IF e \in lastTick[s].updated THEN 1 ELSE 0)
                  + (IF e \in lastTick'[s].updated THEN 1 ELSE 0)
         IN n <= ((window * system[s].frequency) \div 1000) + 1]_vars

\* C13: with S(types = [-1], frequency = 1) in the world, two update() calls
\* made within 500 ms of real time produce exactly one S.update call for an
\* entity that is in the world at both calls.
C13_TwoTicksOneUpdate ==
  [][op'.name = "update" =>
       \A s \in DOMAIN lastTick \cap DOMAIN lastTick' :
         (/\ system[s].componentTypes = <<Wildcard>>
          /\ system[s].frequency = 1
          /\ lastTick'[s].time - lastTick[s].time <= 500) =>
           \A e \in lastTick[s].world \cap lastTick'[s].world :
             (IF e \in lastTick[s].updated THEN 1 ELSE 0)
               + (IF e \in lastTick'[s].updated THEN 1 ELSE 0) = 1]_vars

\* C14: the delta of every update(time, delta, e) call of s is the game clock
\* minus the game timestamp the pair (e, s) had before the tick (over 1000),
\* and the tick refreshes both timestamps of every updated pair.
C14_DeltaIsPairGameElapsed ==
  [][op'.name = "update" =>
       \A i \in 1..Len(calls') :
         calls'[i].hook = "update" =>
           LET e == calls'[i].e
               s == calls'[i].s
               F == system[s].frequency
               since == Minus(Num(clock'), StampOf(_entitySystemLastUpdate', e, s))
           IN /\ calls'[i].arg[2]
                   = Minus(Num(_gameTime'), StampOf(_entitySystemLastUpdateGame, e, s))
              /\ StampOf(_entitySystemLastUpdateGame', e, s) = Num(_gameTime')
              /\ ~IsNaN(since)
              /\ since[1] >= 0
              /\ IF F > 0 THEN since[1] < 1000 \div F ELSE since[1] = 0]_vars

TickHooks == {"update", "beforeUpdateAll", "afterUpdateAll"}

\* C15: while timeScale is 0, every delta passed to update / beforeUpdateAll /
\* afterUpdateAll is 0 and the game time passed to them does not advance.
C15_FrozenClockZeroDelta ==
  [][(op'.name = "update" /\ timeScale = 0) =>
       \A i \in 1..Len(calls') :
         calls'[i].hook \in TickHooks =>
           /\ calls'[i].arg[1] = _gameTime
           /\ calls'[i].arg[2] = Num(0)]_vars

\* 2 * x on a JS number
Twice(x) == IF IsNaN(x) THEN NaN ELSE Num(2 * x[1])

\* C16: the same operations at the same instants on a world with timeScale 1
\* and on one with timeScale 2 invoke the same hooks on the same (system,
\* entity) pairs in the same order; the time and delta arguments of the
\* second are twice those of the first, every other argument is the same.
C16_TimeScaleOnlyScalesArguments ==
  /\ Len(twin.calls) = Len(calls)
  /\ twin.fault = fault
  /\ \A i \in 1..Len(calls) :
       /\ twin.calls[i].hook = calls[i].hook
       /\ twin.calls[i].s = calls[i].s
       /\ twin.calls[i].e = calls[i].e
       /\ IF calls[i].hook \in TickHooks
          THEN /\ twin.calls[i].arg[1] = 2 * calls[i].arg[1]
               /\ twin.calls[i].arg[2] = Twice(calls[i].arg[2])
               /\ SubSeq(twin.calls[i].arg, 3, Len(twin.calls[i].arg))
                    = SubSeq(calls[i].arg, 3, Len(calls[i].arg))
          ELSE twin.calls[i].arg = calls[i].arg

\* a tick has updated a throttled pair with a positive delta in both worlds
C16_Witness ==
  /\ op.name = "update"
  /\ \E i \in 1..Len(calls) :
       /\ calls[i].hook = "update"
       /\ system[calls[i].s].frequency > 0
       /\ ~IsNaN(calls[i].arg[2])
       /\ calls[i].arg[2][1] > 0
       /\ twin.calls[i].arg[2][1] = 2 * calls[i].arg[2][1]

\* the tick hooks of cs from position i on form the block of one batch:
\* beforeUpdateAll(batch), update for each entity of the batch in order,
\* afterUpdateAll(batch), all on one system with one time and one delta
IsBlock(cs, i) ==
  LET batch == cs[i].arg[3]
      n == Len(batch)
  IN /\ cs[i].hook = "beforeUpdateAll"
     /\ n >= 1
     /\ i + n + 1 <= Len(cs)
     /\ \A k \in 1..n :
          cs[i + k] = Call("update", cs[i].s, batch[k], <<cs[i].arg[1], cs[i].arg[2]>>)
     /\ cs[i + n + 1] = Call("afterUpdateAll", cs[i].s, 0, cs[i].arg)

\* C17: in a tick, the tick hooks of each system that gets a batch are
\* beforeUpdateAll(batch) once, update once per batch entity in
\* world-registration order, afterUpdateAll(batch) once, with no hook of
\* another batch in between; a system without update gets neither.
C17_BatchHookSequence ==
  [][op'.name = "update" =>
       /\ \A j \in 1..Len(calls') :
            calls'[j].hook \in TickHooks =>
              \E i \in 1..j : /\ IsBlock(calls', i)
                              /\ j <= i + Len(calls'[i].arg[3]) + 1
       /\ \A i, j \in 1..Len(calls') :
            (/\ calls'[i].hook = "beforeUpdateAll"
             /\ calls'[j].hook = "beforeUpdateAll"
             /\ calls'[i].s = calls'[j].s) => i = j
       /\ \A i \in 1..Len(calls') :
            calls'[i].hook = "beforeUpdateAll" =>
              LET batch == calls'[i].arg[3]
              IN \A a, b \in 1..Len(batch) :
                   a < b => IndexOf(_entities, batch[a]) < IndexOf(_entities, batch[b])]_vars

\* a tick has dispatched a batch of two entities and the batches of two systems
C17_Witness ==
  /\ op.name = "update"
  /\ \E i, j \in 1..Len(calls) :
       /\ calls[i].hook = "beforeUpdateAll"
       /\ calls[j].hook = "beforeUpdateAll"
       /\ calls[i].s # calls[j].s
       /\ Len(calls[i].arg[3]) = 2

\* the states list of s holds the wildcard state or the state x
Admissible(s, x) == Includes(system[s].states, ECSStateAny) \/ Includes(system[s].states, x)

\* C18: no tick hook is invoked on a system whose states list holds neither
\* "Any" nor the current state of the world; enter is not gated by the
\* state: e.add fires it on such a system when e starts to match it.
C18_TickHooksGatedByState ==
  [][/\ op'.name = "update" =>
          \A i \in 1..Len(calls') :
            calls'[i].hook \in TickHooks => Admissible(calls'[i].s, _state)
     /\ \A e \in Entities : \A s \in Systems :
          (/\ op'.name = "entity.add"
           /\ op'.e = e
           /\ Includes(_entities, e)
           /\ Includes(_systems, s)
           /\ ~Admissible(s, _state)
           /\ ~Satisfies(components[e], system[s].componentTypes)
           /\ Satisfies(components'[e], system[s].componentTypes))
            => Count(calls', "enter", s, e) = 1]_vars

\* a tick has updated an entity for system 1 and not for system 2, which is
\* registered, entered for that entity, and not admissible in the current state
C18_Witness ==
  /\ op.name = "update"
  /\ Includes(_systems, 2)
  /\ ~Admissible(2, _state)
  /\ \E e \in Entities :
       /\ Indexed(_entitySystems, e, 2)
       /\ entered[e][2]
       /\ Count(calls, "update", 1, e) = 1
       /\ Count(calls, "update", 2, e) = 0

\* C19: setState(x) records x and calls onStateChange(x, previous state)
\* once on every registered system, in registration order, also when x is
\* the previous state; it calls nothing else.
C19_SetStateNotifiesAll ==
  [][op'.name = "setState" =>
       /\ _state' = op'.c
       /\ calls' = [k \in 1..Len(_systems) |->
                     Call("onStateChange", _systems[k], 0, <<op'.c, _state>>)]]_vars

\* setState has notified two registered systems of a state equal to the previous one
C19_Witness ==
  /\ op.name = "setState"
  /\ Len(_systems) = 2
  /\ Len(calls) = 2
  /\ calls[1].arg = <<_state, _state>>
  /\ calls[2].arg = <<_state, _state>>

RECURSIVE ListenerCalls(_, _, _)
\* one call per listener of list, in order
ListenerCalls(sys, event, list) ==
  IF list = << >> THEN << >>
  ELSE <<Call("listener", sys, 0, <<event, Head(list).fn>>)>>
         \o ListenerCalls(sys, event, Tail(list))

RECURSIVE RegisteredListenerCalls(_, _)
\* the listeners registered for event on the systems of the world from
\* position k on, in system order and per system in listener order
RegisteredListenerCalls(event, k) ==
  IF k > Len(_systems) THEN << >>
  ELSE ListenerCalls(_systems[k], event, LiveListeners(W, _systems[k], event))
         \o RegisteredListenerCalls(event, k + 1)

\* C20: trigger(event, data) invokes every listener registered for event on
\* a system of the world at the time of the call, each once, in
\* system-registration order and per system in listener-registration order,
\* also when some of them were registered with once = true.
C20_TriggerCallsEveryListener ==
  [][op'.name = "trigger" => calls' = RegisteredListenerCalls(op'.c, 1)]_vars

\* C27: removeSystem(s) of a registered system calls s.onRemoved once and
\* clears the listeners and the world / trigger references of s, also when a
\* second world in which s is registered invoked or injected it more recently.
C27_RemoveSystemCallsOnRemoved ==
  [][(op'.name \in {"removeSystem", "removeSystemById"} /\ Includes(_systems, op'.s)) =>
       /\ Count(calls', "onRemoved", op'.s, 0) = 1
       /\ listeners'[op'.s] = << >>
       /\ systemWorld'[op'.s] = "undefined"]_vars

WorldHooks ==
  {"enter", "exit", "change", "update", "beforeUpdateAll", "afterUpdateAll", "listener"}

\* C28: whenever the world invokes enter, exit, change, update,
\* beforeUpdateAll, afterUpdateAll or an event listener on a system, the
\* world and trigger references of the system are those of this world at the
\* moment of the call, also when a second world used the system in between.
C28_HooksRunInjected ==
  /\ Len(injected.at) = Len(calls)
  /\ \A i \in 1..Len(calls) :
       calls[i].hook \in WorldHooks => injected.at[i] = "this"

\* the world has called update and a listener on systems that a second world
\* had injected last
C28_Witness ==
  \/ /\ op.name = "update"
     /\ \E i \in 1..Len(calls) :
          calls[i].hook = "update" /\ calls[i].s \in injected.before
  \/ /\ op.name = "trigger"
     /\ \E i \in 1..Len(calls) :
          calls[i].hook = "listener" /\ calls[i].s \in injected.before

RemoveEntityOps == {"removeEntity", "removeEntityById"}

\* the entities of the world that hold type T (the wildcard: all), in order
HoldersOf(T) ==
  SelectSeq(_entities, LAMBDA e : T \in {Wildcard} \cup DOMAIN components[e])

\* C24: once queryEntitiesByComponent(T) has returned a non-empty list, later
\* calls return that list, whatever is added in between, until removeEntity
\* is called for an entity that holds a component of type T; that removal
\* drops the entry, so that the next call recomputes the list.
C24_CacheKeptUntilHolderRemoved ==
  [][/\ \A T \in DOMAIN _queryCache :
          /\ (op'.name = "queryEntitiesByComponent" /\ op'.c = T) =>
                returned' = _queryCache[T]
          /\ (T \in DOMAIN _queryCache' /\ _queryCache'[T] = _queryCache[T])
             \/ (op'.name \in RemoveEntityOps /\ T \in DOMAIN components[op'.e])
             \/ (op'.name = "update"
                 /\ \E e \in Entities : ~active[e] /\ T \in DOMAIN components[e])
          /\ (/\ op'.name \in RemoveEntityOps
              /\ Includes(_entities, op'.e)
              /\ T \in DOMAIN components[op'.e]) => T \notin DOMAIN _queryCache'
     /\ (op'.name = "queryEntitiesByComponent" /\ op'.c \notin DOMAIN _queryCache) =>
          returned' = HoldersOf(op'.c)]_vars

RECURSIVE ExitCalls(_, _)
\* exit(e) on each system of list, in order
ExitCalls(e, list) ==
  IF list = << >> THEN << >>
  ELSE <<Call("exit", Head(list), e, << >>)>> \o ExitCalls(e, Tail(list))

\* C30: removeEntity(e) of an entity of the world fires exit(e) once on every
\* system indexed for e, then e.onRemoved once, and leaves e out of the
\* entity list with no index, timestamp or subscription entry; e.add and
\* e.remove on an entity that is not in the world fire no hook.
C30_RemoveEntityDetaches ==
  [][/\ (op'.name \in RemoveEntityOps /\ Includes(_entities, op'.e)) =>
          /\ calls' = ExitCalls(op'.e, _entitySystems[op'.e])
                        \o <<Call("onRemoved", 0, op'.e, << >>)>>
          /\ ~Includes(_entities', op'.e)
          /\ op'.e \notin DOMAIN _entitySystems'
          /\ op'.e \notin DOMAIN _entitySystemLastUpdate'
          /\ op'.e \notin DOMAIN _entitySystemLastUpdateGame'
          /\ op'.e \notin _entitySubscription'
          /\ _subscriptions'[op'.e] = 0
     /\ (op'.name \in {"entity.add", "entity.remove"} /\ ~Includes(_entities, op'.e)) =>
          calls' = << >>]_vars

\* C26: a system whose componentTypes list is empty matches nothing: it is in
\* no index list, receives no enter, exit, change or update, and operations
\* on a world that holds it raise no fault.
C26_EmptyTypesMatchNothing ==
  \A s \in Systems :
    system[s].componentTypes = << >> =>
      /\ \A e \in Entities : ~Indexed(_entitySystems, e, s)
      /\ \A i \in 1..Len(calls) :
           calls[i].s = s => calls[i].hook \notin {"enter", "exit", "change", "update"}
      /\ ~fault

\* C29: addEntity of an entity of the world and addSystem of a registered
\* system are no-ops: lists, index, timestamp tables, subscriptions and cache
\* are unchanged and no hook is fired; no entity and no system is ever
\* twice in the lists of the world.
C29_DuplicateAddNoOp ==
  [][/\ (\/ op'.name = "addEntity" /\ Includes(_entities, op'.e)
         \/ op'.name = "addSystem" /\ Includes(_systems, op'.s)) =>
          /\ _entities' = _entities
          /\ _systems' = _systems
          /\ _entitySystems' = _entitySystems
          /\ _entitySystemLastUpdate' = _entitySystemLastUpdate
          /\ _entitySystemLastUpdateGame' = _entitySystemLastUpdateGame
          /\ _entitySubscription' = _entitySubscription
          /\ _subscriptions' = _subscriptions
          /\ _queryCache' = _queryCache
          /\ calls' = << >>
     /\ \A i, j \in 1..Len(_entities') : _entities'[i] = _entities'[j] => i = j
     /\ \A i, j \in 1..Len(_systems') : _systems'[i] = _systems'[j] => i = j]_vars

\* addSystem has been called for a registered system that is indexed for an
\* entity of the world, and has fired nothing
C29_Witness ==
  /\ op.name = "addSystem"
  /\ Includes(_systems, op.s)
  /\ calls = << >>
  /\ \E e \in Entities : Includes(_entities, e) /\ Indexed(_entitySystems, e, op.s)

RECURSIVE TestCalls(_)
\* test(e) for each entity of list, in order
TestCalls(list) ==
  IF list = << >> THEN << >>
  ELSE <<Call("test", 0, Head(list), << >>)>> \o TestCalls(Tail(list))

\* C21: the iterator handed to a listener of system s yields exactly the
\* entities whose index list holds s, each once, whatever componentTypes s
\* declares.
C21_ListenerIteratorYieldsIndexed ==
  [][op'.name = "listener.each" =>
       /\ returned' = TRUE
       /\ calls' = TestCalls(SelectSeq(_entities,
                                       LAMBDA e : Indexed(_entitySystems, e, op'.s)))]_vars

\* C22: a full traversal of query([-1]) yields exactly the entities of the
\* world, each once, in registration order.
C22_QueryWildcardYieldsWorld ==
  [][(op'.name = "query.each" /\ op'.c = <<Wildcard>>) =>
       /\ returned' = TRUE
       /\ calls' = TestCalls(_entities)]_vars

\* C23: a full traversal of query([A, B]) without wildcard yields exactly the
\* entities of the world that hold every requested type, each once, in
\* registration order.
C23_QueryTypesYieldsSupersets ==
  [][(op'.name = "query.each" /\ ~Includes(op'.c, Wildcard)) =>
       /\ returned' = TRUE
       /\ calls' = TestCalls(SelectSeq(_entities,
                                       LAMBDA e : Satisfies(components[e], op'.c)))]_vars

\* C31: removeSystem(s) of a registered system fires s.exit(e) exactly once
\* for every entity whose index list holds s, active or not, and leaves s in
\* no index list and in no timestamp table.
C31_RemoveSystemExitsEveryIndexed ==
  [][(op'.name = "removeSystemById" /\ Includes(_systems, op'.s)) =>
       /\ \A e \in Entities :
            Count(calls', "exit", op'.s, e) =
              IF Indexed(_entitySystems, e, op'.s) THEN 1 ELSE 0
       /\ \A e \in DOMAIN _entitySystems' : ~Includes(_entitySystems'[e], op'.s)
       /\ \A e \in DOMAIN _entitySystemLastUpdate' :
            op'.s \notin DOMAIN _entitySystemLastUpdate'[e]
       /\ \A e \in DOMAIN _entitySystemLastUpdateGame' :
            op'.s \notin DOMAIN _entitySystemLastUpdateGame'[e]]_vars

\* C32: when e.add(c) or e.remove(c) returns for an entity of the world, the
\* index list of e equals the set of registered systems whose required types
\* e satisfies, and the enter / exit hooks of the change have fired.
C32_IndexSynchronousWithMutation ==
  [][(op'.name \in {"entity.add", "entity.remove"} /\ Includes(_entities, op'.e)) =>
       \A s \in Systems :
         /\ Indexed(_entitySystems', op'.e, s) <=>
              (Includes(_systems', s) /\ Satisfies(components'[op'.e], system[s].componentTypes))
         /\ Count(calls', "enter", s, op'.e) =
              IF ~Indexed(_entitySystems, op'.e, s) /\ Indexed(_entitySystems', op'.e, s)
              THEN 1 ELSE 0
         /\ Count(calls', "exit", s, op'.e) =
              IF Indexed(_entitySystems, op'.e, s) /\ ~Indexed(_entitySystems', op'.e, s)
              THEN 1 ELSE 0]_vars

\* the last operation was e.add(c) of an instance e did not hold, or e.remove(c)
\* of an instance e held
EffectiveMutation ==
  LET type == TypeOf(op'.c)
      held == /\ type \in DOMAIN components[op'.e]
              /\ Includes(components[op'.e][type], op'.c)
  IN IF op'.name = "entity.add" THEN ~held ELSE held

\* C33: e.add(c) / e.remove(c) on an entity of the world calls
\* change(e, added, removed) exactly once on each system that was in the index
\* list of e before the mutation and whose componentTypes holds c.type or the
\* wildcard, on no other system, and before any enter / exit of the same
\* mutation; a duplicate add or the removal of an absent component calls nothing.
C33_ChangeBeforeEnterExit ==
  [][(op'.name \in {"entity.add", "entity.remove"} /\ Includes(_entities, op'.e)) =>
       IF ~EffectiveMutation THEN calls' = << >>
       ELSE /\ \A s \in Systems :
                 Count(calls', "change", s, op'.e) =
                   IF /\ Indexed(_entitySystems, op'.e, s)
                      /\ \/ Includes(system[s].componentTypes, TypeOf(op'.c))
                         \/ Includes(system[s].componentTypes, Wildcard)
                   THEN 1 ELSE 0
            /\ \A i \in 1..Len(calls') :
                 calls'[i].hook = "change" =>
                   /\ calls'[i].e = op'.e
                   /\ calls'[i].arg = IF op'.name = "entity.add" THEN <<op'.c, 0>>
                                      ELSE <<0, op'.c>>
                   /\ \A j \in 1..(i - 1) : calls'[j].hook \notin {"enter", "exit"}]_vars

\* an add reported to a system that lists the wildcard, followed by the enter
\* of another system
C33_Witness ==
  /\ op.name = "entity.add"
  /\ \E i \in 1..Len(calls) : \E j \in (i + 1)..Len(calls) :
       /\ calls[i].hook = "change"
       /\ Includes(system[calls[i].s].componentTypes, Wildcard)
       /\ calls[j].hook = "enter"

\* C34: a system appears at most once in the index list of any entity.
C34_IndexListHasNoDuplicate ==
  \A e \in DOMAIN _entitySystems :
    \A i, j \in 1..Len(_entitySystems[e]) :
      _entitySystems[e][i] = _entitySystems[e][j] => i = j

\* a system is added again while an index list still holds it: it is entered
\* by the loop of addSystem only, not indexed anew
C34_Witness ==
  /\ op.name = "addSystem"
  /\ \E e \in DOMAIN _entitySystems :
       /\ Includes(_entitySystems[e], op.s)
       /\ Count(calls, "enter", op.s, e) = 1

\* the pairs (e, s) of a throttled system whose gate the last update() evaluated
\* and let pass: e opens the batch of s
GatePassed(cs) ==
  {p \in Entities \X Systems :
     /\ system[p[2]].frequency > 0
     /\ \E i \in 1..Len(cs) :
          /\ cs[i].hook = "beforeUpdateAll"
          /\ cs[i].s = p[2]
          /\ cs[i].arg[3][1] = p[1]}

\* C35: a throttled pair with wall timestamp stamp that passes the gate at
\* wall time now is stamped now - ((now - stamp) mod I), I = 1000/F: the stamp
\* advances by a positive whole multiple of I and does not exceed now; the
\* stamp of every throttled pair stays congruent modulo I from tick to tick.
C35_StampKeepsPhase ==
  [][op'.name = "update" =>
       /\ \A p \in GatePassed(calls') :
            LET old == StampOf(_entitySystemLastUpdate, p[1], p[2])
                new == StampOf(_entitySystemLastUpdate', p[1], p[2])
                I == 1000 \div system[p[2]].frequency
            IN ~IsNaN(old) =>
                 /\ new = Num(clock' - ((clock' - old[1]) % I))
                 /\ new[1] > old[1]
                 /\ (new[1] - old[1]) % I = 0
                 /\ new[1] <= clock'
       /\ \A e \in Entities : \A s \in Systems :
            LET old == StampOf(_entitySystemLastUpdate, e, s)
                new == StampOf(_entitySystemLastUpdate', e, s)
                I == 1000 \div system[s].frequency
            IN (system[s].frequency > 0 /\ ~IsNaN(old) /\ ~IsNaN(new)) =>
                 /\ (new[1] - old[1]) % I = 0
                 /\ new[1] <= clock']_vars

\* a pair passed the gate with an elapsed time that is no multiple of the
\* interval: its stamp is set behind the time of the tick
C35_Witness ==
  /\ op.name = "update"
  /\ \E p \in GatePassed(calls) :
       LET new == StampOf(_entitySystemLastUpdate, p[1], p[2])
       IN /\ Indexed(_entitySystems, p[1], p[2])
          /\ ~IsNaN(new)
          /\ new[1] < clock
          /\ new[1] > 0

\* the update(.., e) calls of a tick, as its sequence of (system, entity) pairs
UpdatedPairs(cs) ==
  LET ups == SelectSeq(cs, LAMBDA c : c.hook = "update")
  IN [i \in 1..Len(ups) |-> <<ups[i].s, ups[i].e>>]

\* C36: the batches of a tick are complete before any update /
\* beforeUpdateAll / afterUpdateAll hook is called: a world mutation made by
\* such a hook does not change which (system, entity) pairs the tick updates.
C36_BatchesFixedBeforeHooks ==
  [][op'.name = "updateWithHook" =>
       UpdatedPairs(calls') = UpdatedPairs(update(W).calls)]_vars

\* a beforeUpdateAll hook removed an entity of its batch, or the system, or
\* took a required component away, and the batch holds two entities
C36_Witness ==
  /\ op.name = "updateWithHook"
  /\ op.c.hook = "beforeUpdateAll"
  /\ op.c.m.kind \in {"removeEntity", "removeSystem", "entity.remove"}
  /\ \E i \in 1..Len(calls) :
       /\ calls[i].hook \in {"exit", "onRemoved"}
       /\ \E j \in (i + 1)..Len(calls) : \E k \in (j + 1)..Len(calls) :
            /\ calls[j].hook = "update"
            /\ calls[k].hook = "update"
            /\ calls[j].s = op.c.s
            /\ calls[k].s = op.c.s

\* C37: the world holds exactly one change-subscription on each entity of its
\* entity list and none on an entity outside it.
C37_OneSubscriptionPerWorldEntity ==
  \A e \in Entities :
    /\ _subscriptions[e] = IF Includes(_entities, e) THEN 1 ELSE 0
    /\ e \in _entitySubscription <=> Includes(_entities, e)

\* an entity that a system had entered has just been taken out of the world
C37_Witness ==
  /\ op.name \in {"removeEntity", "removeEntityById"}
  /\ ~Includes(_entities, op.e)
  /\ \E i \in 1..Len(calls) : calls[i].hook = "exit" /\ calls[i].e = op.e
  /\ _subscriptions[op.e] = 0

\* C38: a full traversal of an iterator of query(types) ends after at most
\* (number of entities of the world + 1) pulls, in every world.
C38_TraversalEnds ==
  [][op'.name \in {"query.each", "listener.each"} =>
       /\ returned' = TRUE
       /\ Len(calls') + 1 <= Len(_entities) + 1]_vars

C40_OnceListenerRunsOnce ==
  [][op'.name = "trigger" =>
       \A s \in Systems :
         LET before == LiveListeners(W, s, op'.c)
             after == IF op'.c \in DOMAIN listeners'[s] THEN listeners'[s][op'.c] ELSE << >>
             n(fn) == Cardinality({i \in 1..Len(calls') :
                                     /\ calls'[i].hook = "listener"
                                     /\ calls'[i].s = s
                                     /\ calls'[i].arg = <<op'.c, fn>>})
         IN /\ \A i \in 1..Len(calls') :
                 (calls'[i].hook = "listener" /\ calls'[i].s = s) =>
                   \E k \in 1..Len(before) : calls'[i].arg = <<op'.c, before[k].fn>>
            /\ \A k \in 1..Len(before) :
                 before[k].once =>
                   /\ n(before[k].fn) <= 1
                   /\ n(before[k].fn) = 1 => \A j \in 1..Len(after) : after[j].fn # before[k].fn
            /\ op'.c \in DOMAIN listeners'[s] => Len(listeners'[s][op'.c]) > 0]_vars

\* a trigger invoked the only listener of a system, a once listener, and the
\* list of the event is gone
C40_Witness ==
  /\ op.name = "trigger"
  /\ \E i \in 1..Len(calls) :
       /\ calls[i].hook = "listener"
       /\ op.c \notin DOMAIN listeners[calls[i].s]

====
